---- MODULE Spec2Model ----
(***************************************************************************)
(* Model of shared_memory.h: a single-segment producer/consumer channel    *)
(* over POSIX shared memory and two named binary semaphores, with the      *)
(* chunking layer send_item / recv_item on top of it.                      *)
(*                                                                         *)
(* The segment size MAX_BYTES is scaled down; the header layout            *)
(* (unsigned id, size_t chunk_size, size_t total, payload) and every       *)
(* formula over the sizes is kept as written in the source (LP64 sizes).   *)
(***************************************************************************)
EXTENDS Integers, Sequences, FiniteSets, TLC

(***************************************************************************)
(* Sizes                                                                   *)
(***************************************************************************)
MAX_BYTES == 30

SizeofUnsigned == 4

SizeofSizeT == 8

SizeofVoidPtr == 8

\* static const size_t maxlen = MAX_BYTES - sizeof(unsigned) - sizeof(size_t) * 2 - sizeof(void *)
maxlen == MAX_BYTES - SizeofUnsigned - SizeofSizeT * 2 - SizeofVoidPtr

\* offset of the payload in the segment: sizeof(unsigned) + sizeof(size_t) + sizeof(size_t)
HeaderSize == SizeofUnsigned + SizeofSizeT + SizeofSizeT

\* bytes of the mapped region behind the header
PayloadCap == MAX_BYTES - HeaderSize

(***************************************************************************)
(* Bounds of the model                                                     *)
(***************************************************************************)
MaxMsgLen == 5

MaxObjs == 6

MaxCalls == 3

MaxRawTotal == 2

\* payload bytes of the messages; 0 is the byte memset writes
Bytes == {1, 2}

\* an indeterminate byte: malloc'ed and never written, or read outside the region
Garbage == -1

Msgs == UNION {[1..n -> Bytes] : n \in 1..MaxMsgLen}

(***************************************************************************)
(* Processes.  P/C run send_item / recv_item, W1,W2 / R1,R2 race on the    *)
(* raw transactions, A/B are callers of create / open / close.             *)
(***************************************************************************)
Producer == "P"

Consumer == "C"

Writers == {"W1", "W2"}

Readers == {"R1", "R2"}

Callers == {"A", "B"}

Procs == {Producer, Consumer} \cup Writers \cup Readers \cup Callers

VARIABLES
    names,      \* the three names of the channel: object id, 0 when not linked
    nobj,       \* number of kernel objects made so far
    sems,       \* sems[o]: count of semaphore object o
    shms,       \* shms[o]: shared memory object o (size and contents)
    handle,     \* handle[p]: the shared_memory_t of process p
    attached,   \* attached[p]: p's last create/open returned 0
    lastCall,   \* the last create/open/close call: caller, return value,
                \* whether it found all three names linked, and the pair
                \* (Readable, Writable) it found
    ncalls,     \* number of create/open/close calls made
    pc,         \* pc[p]: position of process p
    wr,         \* wr[p]: arguments of p's write_shared_memory invocation
    rd,         \* rd[p]: out-parameters and return value of p's last read_shared_memory
    snd,        \* snd[p]: frame of p's send_item
    rcv,        \* rcv[p]: frame of p's recv_item
    sentq,      \* messages passed to send_item and not yet returned by recv_item
    txlog,      \* kind of the last two transactions that entered the critical section
    injected    \* a corrupt fragment_length has been injected

vars == <<names, nobj, sems, shms, handle, attached, lastCall, ncalls,
          pc, wr, rd, snd, rcv, sentq, txlog, injected>>

chanVars == <<names, nobj, handle, attached, lastCall, ncalls>>

Objs == 1..MaxObjs

(***************************************************************************)
(* The segment: header fields and payload bytes of the mapped region.      *)
(***************************************************************************)
\* a region of `size` bytes filled with zeros (ftruncate of a new object, memset)
ZeroSeg(size) ==
    [size |-> size, id |-> 0, len |-> 0, total |-> 0,
     payload |-> [k \in 1..PayloadCap |-> 0]]

NoHandle == [w_sem |-> 0, r_sem |-> 0, fd |-> 0, data |-> 0]

NoWrite == [data |-> <<>>, len |-> 0, id |-> 0, total |-> 0]

NoRead == [rt |-> -1, data |-> <<>>, len |-> 0, total |-> 0, id |-> 0]

NoSend == [active |-> FALSE, data |-> <<>>, len |-> 0, chunks |-> 0, i |-> 0, ret |-> -1]

NoRecv ==
    [active |-> FALSE, phase |-> "none", i |-> 0, total_chunk |-> 0,
     size_per_chunk |-> 0, buf |-> <<>>, bufst |-> "none", nfree |-> 0,
     oob |-> FALSE, uaf |-> FALSE, failed |-> FALSE,
     out |-> <<>>, len |-> 0, ret |-> -1]

(***************************************************************************)
(* write_shared_memory                                                     *)
(***************************************************************************)
\* memcpy of the header fields and of len payload bytes into the region;
\* bytes of the region behind the payload written are left as they were
StoreFragment(seg, w) ==
    [seg EXCEPT !.id = w.id, !.len = w.len, !.total = w.total,
                !.payload = [k \in 1..PayloadCap |->
                                IF k <= w.len THEN w.data[k] ELSE seg.payload[k]]]

\* WriteWait that does not block on a count of 0
WriteWaitNoBlock(p) ==
    /\ pc[p] = "w_wait"
    /\ sems' = [sems EXCEPT ![handle[p].w_sem] = IF @ > 0 THEN @ - 1 ELSE @]
    /\ pc' = [pc EXCEPT ![p] = "w_cs"]
    /\ txlog' = [prev |-> txlog.last, last |-> "write"]
    /\ UNCHANGED <<chanVars, shms, wr, rd, snd, rcv, sentq, injected>>

\* sem_wait(self->w_sem): blocks while the count is 0
WriteWait(p) ==
    /\ pc[p] = "w_wait"
    /\ sems[handle[p].w_sem] > 0
    /\ sems' = [sems EXCEPT ![handle[p].w_sem] = @ - 1]
    /\ pc' = [pc EXCEPT ![p] = "w_cs"]
    /\ txlog' = [prev |-> txlog.last, last |-> "write"]
    /\ UNCHANGED <<chanVars, shms, wr, rd, snd, rcv, sentq, injected>>

\* the ulen of chunk i of send_item
ChunkLen(len, chunks, i) ==
    IF chunks = 1 THEN len
    ELSE IF i = chunks - 1 THEN len - (maxlen * i) ELSE maxlen

\* ChunkArgs passing 0 as the id of every chunk
ChunkArgsIdZero(data, len, chunks, i) ==
    LET ulen == IF chunks = 1 THEN len
                ELSE IF i = chunks - 1 THEN len - (maxlen * i) ELSE maxlen
    IN  [data  |-> SubSeq(data, i * maxlen + 1, i * maxlen + ulen),
         len   |-> ulen,
         id    |-> 0,
         total |-> chunks]

\* ChunkArgs passing data instead of data + ustart
ChunkArgsNoOffset(data, len, chunks, i) ==
    [data  |-> SubSeq(data, 1, ChunkLen(len, chunks, i)),
     len   |-> ChunkLen(len, chunks, i),
     id    |-> i,
     total |-> chunks]

\* the arguments send_item passes to write_shared_memory for chunk i:
\* data + ustart, ulen, (unsigned) i, chunks
ChunkArgs(data, len, chunks, i) ==
    [data  |-> SubSeq(data, i * maxlen + 1, i * maxlen + ChunkLen(len, chunks, i)),
     len   |-> ChunkLen(len, chunks, i),
     id    |-> i,
     total |-> chunks]

\* WriteBody that posts the writer semaphore as well
WriteBodyPostsBoth(p) ==
    /\ pc[p] = "w_cs"
    /\ shms' = [shms EXCEPT ![handle[p].data] = StoreFragment(@, wr[p])]
    /\ sems' = [o \in Objs |->
                 IF o \in {handle[p].r_sem, handle[p].w_sem} THEN sems[o] + 1 ELSE sems[o]]
    /\ IF snd[p].active /\ snd[p].i + 1 < snd[p].chunks
         THEN /\ snd' = [snd EXCEPT ![p].i = @ + 1]
              /\ wr' = [wr EXCEPT ![p] =
                          ChunkArgs(snd[p].data, snd[p].len, snd[p].chunks, snd[p].i + 1)]
              /\ pc' = [pc EXCEPT ![p] = "w_wait"]
         ELSE /\ snd' = [snd EXCEPT ![p] =
                          IF snd[p].active
                            THEN [snd[p] EXCEPT !.active = FALSE, !.ret = 0]
                            ELSE snd[p]]
              /\ wr' = [wr EXCEPT ![p] = NoWrite]
              /\ pc' = [pc EXCEPT ![p] = "idle"]
    /\ UNCHANGED <<chanVars, rd, rcv, sentq, txlog, injected>>

\* the four memcpy into the region and sem_post(self->r_sem); write_shared_memory
\* returns 0 and, inside send_item, the loop goes on to the next chunk or returns 0
WriteBody(p) ==
    /\ pc[p] = "w_cs"
    /\ shms' = [shms EXCEPT ![handle[p].data] = StoreFragment(@, wr[p])]
    /\ sems' = [sems EXCEPT ![handle[p].r_sem] = @ + 1]
    /\ IF snd[p].active /\ snd[p].i + 1 < snd[p].chunks
         THEN /\ snd' = [snd EXCEPT ![p].i = @ + 1]
              /\ wr' = [wr EXCEPT ![p] =
                          ChunkArgs(snd[p].data, snd[p].len, snd[p].chunks, snd[p].i + 1)]
              /\ pc' = [pc EXCEPT ![p] = "w_wait"]
         ELSE /\ snd' = [snd EXCEPT ![p] =
                          IF snd[p].active
                            THEN [snd[p] EXCEPT !.active = FALSE, !.ret = 0]
                            ELSE snd[p]]
              /\ wr' = [wr EXCEPT ![p] = NoWrite]
              /\ pc' = [pc EXCEPT ![p] = "idle"]
    /\ UNCHANGED <<chanVars, rd, rcv, sentq, txlog, injected>>

(***************************************************************************)
(* send_item                                                               *)
(***************************************************************************)
\* Chunks without the increment for a remainder
ChunksNoRemainder(len) == IF len > maxlen THEN len \div maxlen ELSE 1

\* size_t chunks = 1; if (len > maxlen) chunks = len / maxlen;
\* if (chunks * maxlen < len) ++chunks;
Chunks(len) ==
    LET c == IF len > maxlen THEN len \div maxlen ELSE 1
    IN  IF c * maxlen < len THEN c + 1 ELSE c

\* send_item(self, data, len) up to the sem_wait of its first write
SendItem(p, m) ==
    /\ pc[p] = "idle"
    /\ attached[p]
    /\ Len(m) > 0
    /\ snd' = [snd EXCEPT ![p] =
                 [active |-> TRUE, data |-> m, len |-> Len(m),
                  chunks |-> Chunks(Len(m)), i |-> 0, ret |-> -1]]
    /\ wr' = [wr EXCEPT ![p] = ChunkArgs(m, Len(m), Chunks(Len(m)), 0)]
    /\ pc' = [pc EXCEPT ![p] = "w_wait"]
    /\ sentq' = Append(sentq, m)
    /\ UNCHANGED <<chanVars, sems, shms, rd, rcv, txlog, injected>>

(***************************************************************************)
(* read_shared_memory                                                      *)
(***************************************************************************)
\* ReadWait that does not block on a count of 0
ReadWaitNoBlock(p) ==
    /\ pc[p] = "r_wait"
    /\ sems' = [sems EXCEPT ![handle[p].r_sem] = IF @ > 0 THEN @ - 1 ELSE @]
    /\ pc' = [pc EXCEPT ![p] = "r_cs"]
    /\ txlog' = [prev |-> txlog.last, last |-> "read"]
    /\ UNCHANGED <<chanVars, shms, wr, rd, snd, rcv, sentq, injected>>

\* sem_wait(self->r_sem): blocks while the count is 0
ReadWait(p) ==
    /\ pc[p] = "r_wait"
    /\ sems[handle[p].r_sem] > 0
    /\ sems' = [sems EXCEPT ![handle[p].r_sem] = @ - 1]
    /\ pc' = [pc EXCEPT ![p] = "r_cs"]
    /\ txlog' = [prev |-> txlog.last, last |-> "read"]
    /\ UNCHANGED <<chanVars, shms, wr, rd, snd, rcv, sentq, injected>>

\* if (*len <= 0 || *len > MAX_BYTES) return 1;
BadLen(len) == len <= 0 \/ len > MAX_BYTES

\* The critical section of read_shared_memory on region seg: the out-parameters
\* and the return value.  st is the state of *data on return: "uninit" when the
\* function returned before assigning it, "null" when malloc failed, else "ok".
\* A length accepted beyond the payload area reads outside the region.
ReadResult(seg, mallocOK) ==
    IF BadLen(seg.len)
      THEN [rt |-> 1, st |-> "uninit", data |-> <<>>,
            len |-> seg.len, total |-> seg.total, id |-> seg.id]
    ELSE IF ~mallocOK
      THEN [rt |-> 1, st |-> "null", data |-> <<>>,
            len |-> seg.len, total |-> seg.total, id |-> seg.id]
    ELSE [rt |-> 0, st |-> "ok",
          data |-> [k \in 1..seg.len |->
                      IF k <= PayloadCap THEN seg.payload[k] ELSE Garbage],
          len |-> seg.len, total |-> seg.total, id |-> seg.id]

(***************************************************************************)
(* recv_item                                                               *)
(***************************************************************************)
\* CopyInto copying one byte too few
CopyIntoShort(buf, off, src, n) ==
    [k \in 1..Len(buf) |->
        IF off < k /\ k < off + n
          THEN (IF k - off <= Len(src) THEN src[k - off] ELSE Garbage)
          ELSE buf[k]]

\* memcpy(buf + off, src, n); a source that is no valid buffer yields
\* indeterminate bytes, bytes behind the end of buf are not part of buf
CopyInto(buf, off, src, n) ==
    [k \in 1..Len(buf) |->
        IF off < k /\ k <= off + n
          THEN (IF k - off <= Len(src) THEN src[k - off] ELSE Garbage)
          ELSE buf[k]]

\* Resize handing out one byte less than asked for
ResizeShort(buf, n) ==
    [k \in 1..(n - 1) |-> IF k <= Len(buf) THEN buf[k] ELSE Garbage]

\* malloc(n) / realloc(buf, n): the first Min(n, Len(buf)) bytes are kept
Resize(buf, n) ==
    [k \in 1..n |-> IF k <= Len(buf) THEN buf[k] ELSE Garbage]

\* LoopCond running the loop up to the last chunk
LoopCondToLast(i, total_chunk) == i < total_chunk

\* i < total_chunk - 1 in size_t arithmetic: 0 - 1 wraps to SIZE_MAX
LoopCond(i, total_chunk) ==
    IF total_chunk = 0 THEN TRUE ELSE i < total_chunk - 1

\* the use of the fragment buffer after a read that failed: memcpy from and
\* free of a pointer that was never assigned, memcpy from NULL
UsesBadPointer(res) ==
    res.rt # 0 /\ (res.st = "uninit" \/ (res.st = "null" /\ res.len > 0))

\* recv_item from the return of its first read_shared_memory to its next
\* sem_wait or its return
RecvFirst(f, res, crash) ==
    IF res.rt # 0
      THEN IF res.st = "uninit" /\ crash
             THEN [f |-> [f EXCEPT !.failed = TRUE], pc |-> "crashed"]
             ELSE [f |-> [NoRecv EXCEPT !.failed = TRUE, !.ret = 1], pc |-> "idle"]
      ELSE LET n   == res.total * res.len
               buf == CopyInto(Resize(<<>>, n), 0, res.data, res.len)
               g   == [f EXCEPT !.total_chunk = res.total,
                                !.size_per_chunk = res.len,
                                !.buf = buf, !.bufst = "live", !.i = 1,
                                !.oob = res.len > n]
           IN  IF LoopCond(1, res.total)
                 THEN [f |-> [g EXCEPT !.phase = "middle"], pc |-> "r_wait"]
               ELSE IF res.total > 1
                 THEN [f |-> [g EXCEPT !.phase = "last"], pc |-> "r_wait"]
               ELSE [f |-> [g EXCEPT !.active = FALSE, !.phase = "none",
                                     !.out = buf, !.len = n, !.ret = 0, !.buf = <<>>],
                     pc |-> "idle"]

\* the body of the for loop: memcpy, free(_temp), if (rt != 0) free(*data); ++i
RecvMiddle(f, res, crash) ==
    IF UsesBadPointer(res) /\ crash
      THEN [f |-> [f EXCEPT !.failed = TRUE], pc |-> "crashed"]
      ELSE LET off == f.i * f.size_per_chunk
               g   == [f EXCEPT
                         !.buf = CopyInto(f.buf, off, res.data, res.len),
                         !.oob = f.oob \/ off + res.len > Len(f.buf),
                         !.uaf = f.uaf \/ f.bufst = "freed",
                         !.bufst = IF res.rt # 0 THEN "freed" ELSE f.bufst,
                         !.nfree = IF res.rt # 0 THEN f.nfree + 1 ELSE f.nfree,
                         !.failed = f.failed \/ res.rt # 0,
                         !.i = f.i + 1]
           IN  IF LoopCond(f.i + 1, f.total_chunk)
                 THEN [f |-> g, pc |-> "r_wait"]
                 ELSE [f |-> [g EXCEPT !.phase = "last"], pc |-> "r_wait"]

\* the if (total_chunk > 1) branch behind the loop
RecvLast(f, res, crash) ==
    IF UsesBadPointer(res) /\ crash
      THEN [f |-> [f EXCEPT !.failed = TRUE], pc |-> "crashed"]
      ELSE LET off == f.i * f.size_per_chunk
               n   == (f.total_chunk - 1) * f.size_per_chunk + res.len
               buf == CopyInto(f.buf, off, res.data, res.len)
               g   == [f EXCEPT
                         !.active = FALSE, !.phase = "none", !.buf = <<>>,
                         !.oob = f.oob \/ off + res.len > Len(f.buf),
                         !.uaf = f.uaf \/ f.bufst = "freed"]
           IN  IF res.rt # 0
                 THEN [f |-> [g EXCEPT !.bufst = "freed", !.nfree = f.nfree + 1,
                                       !.failed = TRUE, !.ret = 1],
                       pc |-> "idle"]
                 ELSE [f |-> [g EXCEPT
                                !.out = IF res.len # f.size_per_chunk
                                          THEN Resize(buf, n) ELSE buf,
                                !.len = n, !.ret = 0],
                       pc |-> "idle"]

RecvStep(f, res, crash) ==
    IF f.phase = "first" THEN RecvFirst(f, res, crash)
    ELSE IF f.phase = "middle" THEN RecvMiddle(f, res, crash)
    ELSE RecvLast(f, res, crash)

\* recv_item(self, data, len) up to the sem_wait of its first read
RecvItem(p) ==
    /\ pc[p] = "idle"
    /\ attached[p]
    /\ rcv' = [rcv EXCEPT ![p] = [NoRecv EXCEPT !.active = TRUE, !.phase = "first"]]
    /\ pc' = [pc EXCEPT ![p] = "r_wait"]
    /\ UNCHANGED <<chanVars, sems, shms, wr, rd, snd, sentq, txlog, injected>>

\* ReadBody without the memset of the region
ReadBodyNoClear(p, mallocOK, crash) ==
    /\ pc[p] = "r_cs"
    /\ LET seg == shms[handle[p].data]
           res == ReadResult(seg, mallocOK)
       IN  /\ IF res.rt = 0
                THEN /\ shms' = shms
                     /\ sems' = [sems EXCEPT ![handle[p].w_sem] = @ + 1]
                ELSE UNCHANGED <<sems, shms>>
           /\ IF rcv[p].active
                THEN LET nxt == RecvStep(rcv[p], res, crash)
                     IN  /\ rcv' = [rcv EXCEPT ![p] = nxt.f]
                         /\ pc' = [pc EXCEPT ![p] = nxt.pc]
                         /\ sentq' = IF nxt.f.ret = 0 /\ sentq # <<>>
                                       THEN Tail(sentq) ELSE sentq
                         /\ rd' = rd
                ELSE /\ rd' = [rd EXCEPT ![p] =
                                 [rt |-> res.rt, data |-> res.data, len |-> res.len,
                                  total |-> res.total, id |-> res.id]]
                     /\ pc' = [pc EXCEPT ![p] = "idle"]
                     /\ UNCHANGED <<rcv, sentq>>
    /\ UNCHANGED <<chanVars, wr, snd, txlog, injected>>

\* The critical section of read_shared_memory and what follows it up to the
\* next blocking call.  On success the region is cleared and the writer
\* semaphore posted; the two failure returns leave the function without
\* sem_post.  mallocOK is the outcome of malloc(*len); crash chooses, where the
\* caller then uses a pointer that was never assigned, between the process
\* dying there and the use passing unnoticed.
ReadBody(p, mallocOK, crash) ==
    /\ pc[p] = "r_cs"
    /\ LET seg == shms[handle[p].data]
           res == ReadResult(seg, mallocOK)
       IN  /\ IF res.rt = 0
                THEN /\ shms' = [shms EXCEPT ![handle[p].data] = ZeroSeg(seg.size)]
                     /\ sems' = [sems EXCEPT ![handle[p].w_sem] = @ + 1]
                ELSE UNCHANGED <<sems, shms>>
           /\ IF rcv[p].active
                THEN LET nxt == RecvStep(rcv[p], res, crash)
                     IN  /\ rcv' = [rcv EXCEPT ![p] = nxt.f]
                         /\ pc' = [pc EXCEPT ![p] = nxt.pc]
                         /\ sentq' = IF nxt.f.ret = 0 /\ sentq # <<>>
                                       THEN Tail(sentq) ELSE sentq
                         /\ rd' = rd
                ELSE /\ rd' = [rd EXCEPT ![p] =
                                 [rt |-> res.rt, data |-> res.data, len |-> res.len,
                                  total |-> res.total, id |-> res.id]]
                     /\ pc' = [pc EXCEPT ![p] = "idle"]
                     /\ UNCHANGED <<rcv, sentq>>
    /\ UNCHANGED <<chanVars, wr, snd, txlog, injected>>

(***************************************************************************)
(* A created and opened channel: the state after create_shared_memory by   *)
(* one side and open_shared_memory by the other, (R,W) = (0,1).            *)
(***************************************************************************)
ChannelHandle == [w_sem |-> 1, r_sem |-> 2, fd |-> 3, data |-> 3]

\* InitChannel with the reader semaphore created with count 1
InitChannelReadable(users) ==
    /\ names = [w_sem |-> 1, r_sem |-> 2, shm |-> 3]
    /\ nobj = 3
    /\ sems = [o \in Objs |-> IF o \in {1, 2} THEN 1 ELSE 0]
    /\ shms = [o \in Objs |-> ZeroSeg(IF o = 3 THEN MAX_BYTES ELSE 0)]
    /\ handle = [p \in Procs |-> IF p \in users THEN ChannelHandle ELSE NoHandle]
    /\ attached = [p \in Procs |-> p \in users]
    /\ lastCall = [proc |-> "none", op |-> "none", rc |-> 0, found |-> FALSE,
                   rw |-> <<-1, -1>>]
    /\ ncalls = 0
    /\ pc = [p \in Procs |-> "idle"]
    /\ wr = [p \in Procs |-> NoWrite]
    /\ rd = [p \in Procs |-> NoRead]
    /\ snd = [p \in Procs |-> NoSend]
    /\ rcv = [p \in Procs |-> NoRecv]
    /\ sentq = <<>>
    /\ txlog = [prev |-> "none", last |-> "none"]
    /\ injected = FALSE

InitChannel(users) ==
    /\ names = [w_sem |-> 1, r_sem |-> 2, shm |-> 3]
    /\ nobj = 3
    /\ sems = [o \in Objs |-> IF o = 1 THEN 1 ELSE 0]
    /\ shms = [o \in Objs |-> ZeroSeg(IF o = 3 THEN MAX_BYTES ELSE 0)]
    /\ handle = [p \in Procs |-> IF p \in users THEN ChannelHandle ELSE NoHandle]
    /\ attached = [p \in Procs |-> p \in users]
    /\ lastCall = [proc |-> "none", op |-> "none", rc |-> 0, found |-> FALSE,
                   rw |-> <<-1, -1>>]
    /\ ncalls = 0
    /\ pc = [p \in Procs |-> "idle"]
    /\ wr = [p \in Procs |-> NoWrite]
    /\ rd = [p \in Procs |-> NoRead]
    /\ snd = [p \in Procs |-> NoSend]
    /\ rcv = [p \in Procs |-> NoRecv]
    /\ sentq = <<>>
    /\ txlog = [prev |-> "none", last |-> "none"]
    /\ injected = FALSE

(***************************************************************************)
(* Spec: one producer calling send_item and one consumer calling recv_item *)
(* over and over on a fresh channel; every malloc succeeds.                *)
(***************************************************************************)
Init == InitChannel({Producer, Consumer})

Send == \E m \in Msgs : SendItem(Producer, m)

Recv == RecvItem(Consumer)

PWait == WriteWait(Producer)

PWrite == WriteBody(Producer)

CWait == ReadWait(Consumer)

CRead == ReadBody(Consumer, TRUE, FALSE)

Next == Send \/ PWait \/ PWrite \/ Recv \/ CWait \/ CRead

Spec == Init /\ [][Next]_vars

\* Spec with the processes scheduled fairly: a process that is not blocked in
\* sem_wait takes its next step.  Whether send_item / recv_item is called
\* again is up to the callers.
FairSpec ==
    /\ Spec
    /\ WF_vars(PWait) /\ WF_vars(PWrite) /\ WF_vars(CWait) /\ WF_vars(CRead)

(***************************************************************************)
(* SpecRT: one send_item(m) and one recv_item on a fresh channel.          *)
(***************************************************************************)
SendOnce == ~snd[Producer].active /\ snd[Producer].ret = -1 /\ Send

RecvOnce == ~rcv[Consumer].active /\ rcv[Consumer].ret = -1 /\ Recv

NextRT == SendOnce \/ PWait \/ PWrite \/ RecvOnce \/ CWait \/ CRead

SpecRT == Init /\ [][NextRT]_vars

\* SpecRT with the two calls made and both processes scheduled fairly
FairSpecRT ==
    /\ SpecRT
    /\ WF_vars(SendOnce) /\ WF_vars(RecvOnce)
    /\ WF_vars(PWait) /\ WF_vars(PWrite) /\ WF_vars(CWait) /\ WF_vars(CRead)

\* the semaphores and the region of the channel of InitChannel
R == sems[ChannelHandle.r_sem]

W == sems[ChannelHandle.w_sem]

Seg == shms[ChannelHandle.data]

\* recv_item of p returns in this step
Returns(p) == rcv[p].active /\ ~rcv'[p].active

(***************************************************************************)
(* C1  Round trip.  When recv_item has returned on a fresh channel on      *)
(* which send_item(m) was called, it has returned 0, its output buffer     *)
(* equals m byte for byte and its output length is len(m).                 *)
(***************************************************************************)
C1_RoundTrip ==
    rcv[Consumer].ret # -1 =>
        /\ rcv[Consumer].ret = 0
        /\ rcv[Consumer].out = snd[Producer].data
        /\ rcv[Consumer].len = snd[Producer].len

\* a message of more than two fragments, the last one shorter, has been returned
C1_Witness ==
    /\ rcv[Consumer].ret = 0
    /\ rcv[Consumer].len > 2 * maxlen
    /\ rcv[Consumer].len % maxlen # 0
    /\ rcv[Consumer].out = snd[Producer].data

(***************************************************************************)
(* C2  Message order.  Every return of recv_item is a success that hands   *)
(* out exactly the oldest message passed to send_item and not yet          *)
(* returned: nothing is lost, duplicated, truncated or merged.             *)
(***************************************************************************)
C2_InOrder ==
    [][Returns(Consumer) =>
          /\ sentq # <<>>
          /\ rcv'[Consumer].ret = 0
          /\ rcv'[Consumer].out = Head(sentq)
          /\ rcv'[Consumer].len = Len(Head(sentq))
          /\ sentq' = Tail(sentq)]_vars

\* a multi-fragment message was returned while the next send_item is already
\* blocked on its first fragment
C2_Witness ==
    /\ rcv[Consumer].ret = 0
    /\ rcv[Consumer].len > maxlen
    /\ Len(sentq) = 1
    /\ sentq[1] # rcv[Consumer].out
    /\ pc[Producer] = "w_wait"
    /\ pc[Consumer] = "idle"

(***************************************************************************)
(* C4  Backpressure.  While a fragment is in flight the producer is not    *)
(* inside the critical section of a write and the only step that changes   *)
(* the segment is the read that consumes the fragment; once that read has  *)
(* released the writer semaphore, the blocked write goes through.          *)
(***************************************************************************)
InFlight == R = 1 \/ pc[Consumer] = "r_cs"

C4_Backpressure ==
    /\ [](InFlight => pc[Producer] # "w_cs")
    /\ [][(InFlight /\ shms' # shms) =>
             (pc[Consumer] = "r_cs" /\ pc'[Consumer] # "r_cs")]_vars
    /\ [][(InFlight /\ pc[Producer] = "w_wait" /\ pc'[Producer] # "w_wait") =>
             W = 1]_vars
    /\ ((pc[Producer] = "w_wait" /\ W = 1) ~> (R = 1))

\* the next write is blocked behind a fragment in flight
C4_Witness ==
    /\ R = 1
    /\ W = 0
    /\ pc[Producer] = "w_wait"
    /\ Seg.len > 0

(***************************************************************************)
(* SpecRace: two writers and two readers invoke write_shared_memory and    *)
(* read_shared_memory directly, again and again, on one created channel;   *)
(* malloc inside read_shared_memory may fail.                              *)
(***************************************************************************)
RawData == {<<1>>, <<2, 1>>}

\* arguments that satisfy the assert of write_shared_memory
RawArgs ==
    {[data |-> m, len |-> Len(m), id |-> t - 1, total |-> t] :
        m \in {d \in RawData : Len(d) > 0 /\ Len(d) <= MAX_BYTES - SizeofSizeT * 2 - SizeofUnsigned},
        t \in 1..MaxRawTotal}

\* write_shared_memory(self, data, len, id, total) up to its sem_wait
WriteCall(p, a) ==
    /\ pc[p] = "idle"
    /\ attached[p]
    /\ ~snd[p].active
    /\ wr' = [wr EXCEPT ![p] = a]
    /\ pc' = [pc EXCEPT ![p] = "w_wait"]
    /\ UNCHANGED <<chanVars, sems, shms, rd, snd, rcv, sentq, txlog, injected>>

\* read_shared_memory(self, &data, &len, &total_chunk, &id) up to its sem_wait
ReadCall(p) ==
    /\ pc[p] = "idle"
    /\ attached[p]
    /\ ~rcv[p].active
    /\ rd' = [rd EXCEPT ![p] = NoRead]
    /\ pc' = [pc EXCEPT ![p] = "r_wait"]
    /\ UNCHANGED <<chanVars, sems, shms, wr, snd, rcv, sentq, txlog, injected>>

InitRace == InitChannel(Writers \cup Readers)

RaceWriteCall == \E p \in Writers : \E a \in RawArgs : WriteCall(p, a)

RaceWriteWait == \E p \in Writers : WriteWait(p)

RaceWriteBody == \E p \in Writers : WriteBody(p)

RaceReadCall == \E p \in Readers : ReadCall(p)

RaceReadWait == \E p \in Readers : ReadWait(p)

RaceReadBody == \E p \in Readers : \E mallocOK \in BOOLEAN : ReadBody(p, mallocOK, FALSE)

NextRace ==
    \/ RaceWriteCall \/ RaceWriteWait \/ RaceWriteBody
    \/ RaceReadCall \/ RaceReadWait \/ RaceReadBody

SpecRace == InitRace /\ [][NextRace]_vars

\* processes between the sem_wait and the return of a transaction
InCS == {p \in Procs : pc[p] \in {"w_cs", "r_cs"}}

(***************************************************************************)
(* C3  Strict alternation.  Ordered by entry into the critical section,    *)
(* the transactions go write, read, write, read, ...: the first one is a   *)
(* write and no transaction is followed by one of its own kind.            *)
(***************************************************************************)
C3_Alternation ==
    /\ (txlog.prev = "none" /\ txlog.last # "none") => txlog.last = "write"
    /\ txlog.last # "none" => txlog.last # txlog.prev

\* a second writer and a second reader are waiting while a read, which follows
\* a write, is in its critical section
C3_Witness ==
    /\ txlog = [prev |-> "write", last |-> "read"]
    /\ \E p \in Readers : pc[p] = "r_cs"
    /\ \E p \in Readers : pc[p] = "r_wait"
    /\ \A p \in Writers : pc[p] = "w_wait"

(***************************************************************************)
(* C5  Mutual exclusion.  At most one process is between the sem_wait and  *)
(* the return of write_shared_memory or read_shared_memory.                *)
(***************************************************************************)
C5_MutualExclusion == Cardinality(InCS) <= 1

\* one process is in the critical section and the three others are waiting
C5_Witness ==
    /\ Cardinality(InCS) = 1
    /\ \A p \in (Writers \cup Readers) \ InCS : pc[p] \in {"w_wait", "r_wait"}

(***************************************************************************)
(* C9  The pair (Readable, Writable) is never (1,1): Readable + Writable   *)
(* is at most 1 in every reachable state.                                  *)
(***************************************************************************)
C9_NeverBothUp == R + W <= 1 /\ R \in {0, 1} /\ W \in {0, 1}

\* (1,0) with a further writer already waiting and a reader about to enter
C9_Witness ==
    /\ R = 1
    /\ W = 0
    /\ \E p \in Writers : pc[p] = "w_wait"
    /\ \E p \in Readers : pc[p] = "r_wait"
    /\ txlog.prev = "read"

(***************************************************************************)
(* C10  (0,0) is only transient: whenever no transaction is in progress    *)
(* the pair is (0,1) or (1,0), also after a read that returned failure.    *)
(***************************************************************************)
C10_ZeroZeroTransient ==
    InCS = {} => (<<R, W>> = <<0, 1>> \/ <<R, W>> = <<1, 0>>)

(***************************************************************************)
(* SpecFault: Spec with faults.  A fragment header in flight may have its  *)
(* fragment_length overwritten once with 0 or with a value above the       *)
(* segment capacity, and malloc inside read_shared_memory may fail.        *)
(***************************************************************************)
CorruptLens == {0, MAX_BYTES + 1}

\* the chunk_size field of the fragment waiting in the region is overwritten
Inject(v) ==
    /\ ~injected
    /\ R = 1
    /\ shms' = [shms EXCEPT ![ChannelHandle.data].len = v]
    /\ injected' = TRUE
    /\ UNCHANGED <<chanVars, sems, pc, wr, rd, snd, rcv, sentq, txlog>>

Corrupt == \E v \in CorruptLens : Inject(v)

FaultRead ==
    \E mallocOK \in BOOLEAN : \E crash \in BOOLEAN : ReadBody(Consumer, mallocOK, crash)

NextFault == Send \/ PWait \/ PWrite \/ Recv \/ CWait \/ FaultRead \/ Corrupt

SpecFault == Init /\ [][NextFault]_vars

\* SpecCorrupt: the corrupt length is the only fault.  Every malloc succeeds
\* and a use of a pointer that was never assigned passes unnoticed, which is
\* the outcome most favourable to recv_item.
NextCorrupt == Send \/ PWait \/ PWrite \/ Recv \/ CWait \/ CRead \/ Corrupt

SpecCorrupt == Init /\ [][NextCorrupt]_vars

(***************************************************************************)
(* C8  Corruption guard.  Once the consumer has read a fragment header     *)
(* whose fragment_length is 0 or above the capacity, recv_item has         *)
(* returned failure, wherever in the message the fragment stands.          *)
(***************************************************************************)
C8_CorruptionGuard ==
    (rcv[Consumer].failed /\ BadLen(Seg.len)) =>
        (pc[Consumer] = "idle" /\ rcv[Consumer].ret = 1)

(***************************************************************************)
(* C13  Failed reassembly.  Once a fragment read has failed in recv_item   *)
(* after the output buffer was allocated, recv_item has returned failure   *)
(* with the buffer released exactly once and never used after its release; *)
(* it is not on its way to a further read transaction.                     *)
(***************************************************************************)
C13_FailedReassembly ==
    (rcv[Consumer].failed /\ rcv[Consumer].bufst # "none") =>
        /\ pc[Consumer] = "idle"
        /\ rcv[Consumer].ret = 1
        /\ rcv[Consumer].bufst = "freed"
        /\ rcv[Consumer].nfree = 1
        /\ ~rcv[Consumer].uaf

(***************************************************************************)
(* create_shared_memory / open_shared_memory / close_shared_memory         *)
(*                                                                         *)
(* The kernel side is a record k of the names, the number of objects made  *)
(* and the objects.  An object lives on after its name is unlinked, for    *)
(* the processes that hold it; opening an unlinked name with O_CREAT makes *)
(* a new object.                                                           *)
(***************************************************************************)
Kernel == [names |-> names, nobj |-> nobj, sems |-> sems, shms |-> shms]

\* sem_open(name, O_CREAT | O_RDWR, _MODE, value): the object of the name if
\* it is linked, whatever its count, else a new semaphore of count `value`
SemOpen(k, nm, value) ==
    IF k.names[nm] # 0
      THEN [k |-> k, id |-> k.names[nm]]
      ELSE [k |-> [k EXCEPT !.names[nm] = k.nobj + 1, !.nobj = k.nobj + 1,
                            !.sems[k.nobj + 1] = value],
            id |-> k.nobj + 1]

\* Unlink that leaves the name of the region in place
UnlinkSemsOnly(k, nm) == IF nm = "shm" THEN k ELSE [k EXCEPT !.names[nm] = 0]

\* sem_unlink(name) and shm_unlink(name): the name is gone, the object stays
Unlink(k, nm) == [k EXCEPT !.names[nm] = 0]

\* shm_open(name, O_CREAT | O_RDWR, _MODE): a new object has size 0
ShmOpen(k) ==
    IF k.names.shm # 0
      THEN [k |-> k, id |-> k.names.shm]
      ELSE [k |-> [k EXCEPT !.names.shm = k.nobj + 1, !.nobj = k.nobj + 1,
                            !.shms[k.nobj + 1] = ZeroSeg(0)],
            id |-> k.nobj + 1]

\* Ftruncate that clears the object whatever its size
FtruncateClears(k, o) == [k EXCEPT !.shms[o] = ZeroSeg(MAX_BYTES)]

\* ftruncate(fd, MAX_BYTES): a new object grows to MAX_BYTES zero bytes, an
\* object of that size keeps its contents
Ftruncate(k, o) ==
    IF k.shms[o].size = MAX_BYTES THEN k
    ELSE [k EXCEPT !.shms[o] = ZeroSeg(MAX_BYTES)]

\* Where the environment makes a call of create / open fail.  "einval" is
\* ftruncate failing with EINVAL, which happens on an object that was sized
\* before (README: on Darwin ftruncate can only be called once).
FailAt == {"none", "w_sem", "r_sem", "shm", "ftruncate", "einval", "mmap"}

\* The effect of create_shared_memory on the kernel state k and the handle h
\* when the environment fails the call at f: the new kernel state, the new
\* handle and the return value.
CreateEffect(k, h, f) ==
    IF f = "w_sem"
      THEN [k |-> Unlink(k, "w_sem"), h |-> [h EXCEPT !.w_sem = 0], rc |-> 1]
    ELSE LET w  == SemOpen(k, "w_sem", 1)
             h1 == [h EXCEPT !.w_sem = w.id]
         IN
    IF f = "r_sem"
      THEN [k |-> Unlink(Unlink(w.k, "r_sem"), "w_sem"),
            h |-> [h1 EXCEPT !.r_sem = 0], rc |-> 1]
    ELSE LET r  == SemOpen(w.k, "r_sem", 0)
             h2 == [h1 EXCEPT !.r_sem = r.id]
         IN
    IF f = "shm"
      THEN [k |-> Unlink(Unlink(Unlink(r.k, "w_sem"), "r_sem"), "shm"),
            h |-> [h2 EXCEPT !.fd = 0], rc |-> 1]
    ELSE LET m  == ShmOpen(r.k)
             h3 == [h2 EXCEPT !.fd = m.id]
         IN
    IF f = "ftruncate"
      THEN [k |-> Unlink(Unlink(Unlink(m.k, "shm"), "w_sem"), "r_sem"),
            h |-> h3, rc |-> 1]
    ELSE LET t == IF f = "einval" THEN m.k ELSE Ftruncate(m.k, m.id)
         IN
    IF f = "mmap"
      THEN [k |-> Unlink(Unlink(Unlink(t, "w_sem"), "r_sem"), "shm"),
            h |-> [h3 EXCEPT !.data = 0], rc |-> 1]
    ELSE [k |-> t, h |-> [h3 EXCEPT !.data = m.id], rc |-> 0]

\* The effect of open_shared_memory: the same calls with the same flags
\* (O_RDWR | O_CREAT) and the same initial counts.
OpenEffect(k, h, f) ==
    IF f = "w_sem"
      THEN [k |-> Unlink(k, "w_sem"), h |-> [h EXCEPT !.w_sem = 0], rc |-> 1]
    ELSE LET w  == SemOpen(k, "w_sem", 1)
             h1 == [h EXCEPT !.w_sem = w.id]
         IN
    IF f = "r_sem"
      THEN [k |-> Unlink(Unlink(w.k, "w_sem"), "r_sem"),
            h |-> [h1 EXCEPT !.r_sem = 0], rc |-> 1]
    ELSE LET r  == SemOpen(w.k, "r_sem", 0)
             h2 == [h1 EXCEPT !.r_sem = r.id]
         IN
    IF f = "shm"
      THEN [k |-> Unlink(Unlink(Unlink(r.k, "w_sem"), "r_sem"), "shm"),
            h |-> [h2 EXCEPT !.fd = 0], rc |-> 1]
    ELSE LET m  == ShmOpen(r.k)
             h3 == [h2 EXCEPT !.fd = m.id]
         IN
    IF f = "ftruncate"
      THEN [k |-> Unlink(Unlink(Unlink(m.k, "shm"), "w_sem"), "r_sem"),
            h |-> h3, rc |-> 1]
    ELSE LET t == IF f = "einval" THEN m.k ELSE Ftruncate(m.k, m.id)
         IN
    IF f = "mmap"
      THEN [k |-> Unlink(Unlink(Unlink(t, "shm"), "w_sem"), "r_sem"),
            h |-> [h3 EXCEPT !.data = 0], rc |-> 1]
    ELSE [k |-> t, h |-> [h3 EXCEPT !.data = m.id], rc |-> 0]

\* the failure f can happen in state k: EINVAL needs an object sized before
CanFail(k, f) == f = "einval" => (k.names.shm # 0 /\ k.shms[k.names.shm].size = MAX_BYTES)

\* all three names of the channel exist / none of them exists
AllLinked == names.w_sem # 0 /\ names.r_sem # 0 /\ names.shm # 0

NoneLinked == names.w_sem = 0 /\ names.r_sem = 0 /\ names.shm = 0

\* the counts (Readable, Writable) of the semaphores the names stand for
NamedRW ==
    IF names.r_sem # 0 /\ names.w_sem # 0
      THEN <<sems[names.r_sem], sems[names.w_sem]>>
      ELSE <<-1, -1>>

\* a call of create or open by p with effect e
LifeCall(p, op, e) ==
    /\ pc[p] = "idle"
    /\ ncalls < MaxCalls
    /\ nobj + Cardinality({nm \in DOMAIN names : names[nm] = 0}) <= MaxObjs
    /\ names' = e.k.names
    /\ nobj' = e.k.nobj
    /\ sems' = e.k.sems
    /\ shms' = e.k.shms
    /\ handle' = [handle EXCEPT ![p] = e.h]
    /\ attached' = [attached EXCEPT ![p] = (e.rc = 0)]
    /\ lastCall' = [proc |-> p, op |-> op, rc |-> e.rc, found |-> AllLinked,
                    rw |-> NamedRW]
    /\ ncalls' = ncalls + 1
    /\ UNCHANGED <<pc, wr, rd, snd, rcv, sentq, txlog, injected>>

create_shared_memory(p, f) ==
    /\ CanFail(Kernel, f)
    /\ LifeCall(p, "create", CreateEffect(Kernel, handle[p], f))

open_shared_memory(p, f) ==
    /\ CanFail(Kernel, f)
    /\ LifeCall(p, "open", OpenEffect(Kernel, handle[p], f))

\* shm_unlink(name); sem_unlink(wsem_name); sem_unlink(rsem_name);
close_shared_memory(p) ==
    /\ pc[p] = "idle"
    /\ ncalls < MaxCalls
    /\ names' = Unlink(Unlink(Unlink(Kernel, "shm"), "w_sem"), "r_sem").names
    /\ lastCall' = [proc |-> p, op |-> "close", rc |-> 0, found |-> AllLinked,
                    rw |-> NamedRW]
    /\ ncalls' = ncalls + 1
    /\ UNCHANGED <<nobj, sems, shms, handle, attached,
                   pc, wr, rd, snd, rcv, sentq, txlog, injected>>

(***************************************************************************)
(* SpecLife: two callers create, open and close the one name triple and    *)
(* run transactions on the channel they hold; any step of create / open    *)
(* may fail.  At the start none of the names exists.                       *)
(***************************************************************************)
InitLife ==
    /\ names = [w_sem |-> 0, r_sem |-> 0, shm |-> 0]
    /\ nobj = 0
    /\ sems = [o \in Objs |-> 0]
    /\ shms = [o \in Objs |-> ZeroSeg(0)]
    /\ handle = [p \in Procs |-> NoHandle]
    /\ attached = [p \in Procs |-> FALSE]
    /\ lastCall = [proc |-> "none", op |-> "none", rc |-> 0, found |-> FALSE,
                   rw |-> <<-1, -1>>]
    /\ ncalls = 0
    /\ pc = [p \in Procs |-> "idle"]
    /\ wr = [p \in Procs |-> NoWrite]
    /\ rd = [p \in Procs |-> NoRead]
    /\ snd = [p \in Procs |-> NoSend]
    /\ rcv = [p \in Procs |-> NoRecv]
    /\ sentq = <<>>
    /\ txlog = [prev |-> "none", last |-> "none"]
    /\ injected = FALSE

Create == \E p \in Callers : create_shared_memory(p, "none")

Open == \E p \in Callers : open_shared_memory(p, "none")

CreateFails == \E p \in Callers : \E f \in FailAt \ {"none"} : create_shared_memory(p, f)

OpenFails == \E p \in Callers : \E f \in FailAt \ {"none"} : open_shared_memory(p, f)

Close == \E p \in Callers : close_shared_memory(p)

\* the callers write single-fragment messages
LifeArgs == {a \in RawArgs : a.data = <<2, 1>> /\ a.total = 1}

LifeWriteCall == \E p \in Callers : \E a \in LifeArgs : WriteCall(p, a)

LifeWriteWait == \E p \in Callers : WriteWait(p)

LifeWriteBody == \E p \in Callers : WriteBody(p)

LifeReadCall == \E p \in Callers : ReadCall(p)

LifeReadWait == \E p \in Callers : ReadWait(p)

LifeReadBody == \E p \in Callers : ReadBody(p, TRUE, FALSE)

NextLife ==
    \/ Create \/ Open \/ Close \/ CreateFails \/ OpenFails
    \/ LifeWriteCall \/ LifeWriteWait \/ LifeWriteBody
    \/ LifeReadCall \/ LifeReadWait \/ LifeReadBody

SpecLife == InitLife /\ [][NextLife]_vars

\* this step is a call of op
Calls(op) == ncalls' = ncalls + 1 /\ lastCall'.op = op

(***************************************************************************)
(* C6  Double create.  A create_shared_memory that follows a successful    *)
(* create_shared_memory on the same names, with no close in between,       *)
(* returns failure and leaves the names linked and the semaphores and the  *)
(* region as they were.                                                    *)
(***************************************************************************)
C6_DoubleCreateRejected ==
    [][(Calls("create") /\ lastCall.op = "create" /\ lastCall.rc = 0 /\ AllLinked) =>
          (lastCall'.rc = 1 /\ names' = names /\ sems' = sems /\ shms' = shms)]_vars

(***************************************************************************)
(* C7  Teardown.  An open_shared_memory that follows close_shared_memory   *)
(* on the same names, with no create in between, returns failure and       *)
(* leaves all three names unlinked.                                        *)
(***************************************************************************)
C7_OpenAfterCloseFails ==
    [][(Calls("open") /\ lastCall.op = "close" /\ lastCall.found /\ NoneLinked) =>
          (lastCall'.rc = 1 /\ NoneLinked')]_vars

(***************************************************************************)
(* C11  Create rollback.  A create_shared_memory on names none of which    *)
(* exists either returns failure and leaves none of the three names        *)
(* linked, or returns success with all three names linked, the writer      *)
(* semaphore at count 1 and the reader semaphore at count 0.               *)
(***************************************************************************)
C11_CreateRollback ==
    [][(Calls("create") /\ NoneLinked) =>
          /\ lastCall'.rc \in {0, 1}
          /\ lastCall'.rc = 1 => NoneLinked'
          /\ lastCall'.rc = 0 =>
                /\ AllLinked'
                /\ sems'[names'.w_sem] = 1
                /\ sems'[names'.r_sem] = 0]_vars

\* the first call is a create that failed after it had made all three objects
C11_Witness ==
    /\ ncalls = 1
    /\ lastCall.op = "create"
    /\ lastCall.rc = 1
    /\ nobj = 3
    /\ NoneLinked

(***************************************************************************)
(* C12  open_shared_memory on a channel whose three names exist leaves the *)
(* handshake state alone: whether it finds (0,1), (0,0) or (1,0), the      *)
(* counts of both semaphores and the contents of the region are the same   *)
(* after the call, and a successful call attaches to these very objects.   *)
(***************************************************************************)
C12_OpenKeepsState ==
    [][(Calls("open") /\ AllLinked) =>
          /\ sems'[names.r_sem] = sems[names.r_sem]
          /\ sems'[names.w_sem] = sems[names.w_sem]
          /\ shms'[names.shm] = shms[names.shm]
          /\ lastCall'.rc = 0 =>
                /\ names' = names
                /\ handle'[lastCall'.proc].r_sem = names.r_sem
                /\ handle'[lastCall'.proc].w_sem = names.w_sem
                /\ handle'[lastCall'.proc].data = names.shm]_vars

\* an open that found a fragment in flight, (1,0), has returned 0 and the
\* fragment is still there
C12_Witness ==
    /\ lastCall.op = "open"
    /\ lastCall.found
    /\ lastCall.rc = 0
    /\ lastCall.rw = <<1, 0>>
    /\ NamedRW = <<1, 0>>
    /\ shms[names.shm].len > 0
    /\ \A p \in Callers : pc[p] = "idle"

(***************************************************************************)
(* C14  Fragmentation.  send_item of L > 0 bytes makes exactly             *)
(* ceil(L / maxlen) write transactions; every fragment but the last        *)
(* carries maxlen bytes, the last one the remainder L - (count-1)*maxlen,  *)
(* which is between 1 and maxlen; fragment i carries the bytes of the      *)
(* message from offset i*maxlen on, so that the lengths sum to L.  The     *)
(* fragment waiting in the region is that slice of the oldest message not  *)
(* yet returned.                                                           *)
(***************************************************************************)
C14_Fragmentation ==
    LET s     == snd[Producer]
        w     == wr[Producer]
        count == (s.len + maxlen - 1) \div maxlen
    IN  /\ (s.active \/ s.ret = 0) => (s.len > 0 /\ s.i < count)
        /\ s.ret = 0 => s.i + 1 = count
        /\ s.active =>
              /\ w.len = IF s.i < count - 1 THEN maxlen
                                            ELSE s.len - (count - 1) * maxlen
              /\ w.len >= 1 /\ w.len <= maxlen
              /\ s.i = count - 1 => s.i * maxlen + w.len = s.len
              /\ Len(w.data) = w.len
              /\ \A k \in 1..w.len : w.data[k] = s.data[s.i * maxlen + k]
        /\ R = 1 =>
              /\ sentq # <<>>
              /\ Seg.id * maxlen + Seg.len <= Len(Head(sentq))
              /\ \A k \in 1..Seg.len :
                    Seg.payload[k] = Head(sentq)[Seg.id * maxlen + k]

\* the third and last fragment of a message, shorter than maxlen, is being
\* written
C14_Witness ==
    /\ snd[Producer].active
    /\ snd[Producer].i = snd[Producer].chunks - 1
    /\ snd[Producer].i >= 2
    /\ wr[Producer].len < maxlen
    /\ pc[Producer] = "w_cs"

(***************************************************************************)
(* C15  Fragment headers and order.  The write transactions of one         *)
(* send_item store the ids 0, 1, 2, ... in this order and all store the    *)
(* same total, the number of fragments of the message; the consumer's k-th *)
(* read of a message finds id k and that total, so no fragment of another  *)
(* message stands between two fragments of one message.                    *)
(***************************************************************************)
C15_HeadersInOrder ==
    /\ [][(pc[Producer] = "w_cs" /\ pc'[Producer] # "w_cs") =>
             /\ Seg'.id = snd[Producer].i
             /\ Seg'.total = snd[Producer].chunks
             /\ Seg'.total * maxlen >= snd[Producer].len
             /\ (Seg'.total - 1) * maxlen < snd[Producer].len
             /\ snd'[Producer].data = snd[Producer].data
             /\ IF Seg'.id + 1 < Seg'.total
                  THEN /\ pc'[Producer] = "w_wait"
                       /\ snd'[Producer].i = Seg'.id + 1
                       /\ wr'[Producer].id = Seg'.id + 1
                       /\ wr'[Producer].total = Seg'.total
                  ELSE pc'[Producer] = "idle" /\ snd'[Producer].ret = 0]_vars
    /\ []((pc[Consumer] = "r_cs" /\ rcv[Consumer].active) =>
             /\ Seg.id = rcv[Consumer].i
             /\ sentq # <<>>
             /\ Seg.total * maxlen >= Len(Head(sentq))
             /\ (Seg.total - 1) * maxlen < Len(Head(sentq))
             /\ rcv[Consumer].phase # "first" =>
                   Seg.total = rcv[Consumer].total_chunk)

\* the consumer is about to read the third fragment of a message while the
\* producer has returned from that send_item
C15_Witness ==
    /\ pc[Consumer] = "r_cs"
    /\ rcv[Consumer].active
    /\ rcv[Consumer].i = 2
    /\ Seg.id = 2
    /\ Seg.total = 3
    /\ snd[Producer].ret = 0

(***************************************************************************)
(* C18  Reassembly stays inside its buffer.  For the messages written by   *)
(* send_item the output buffer of recv_item has total_chunk *              *)
(* size_per_chunk bytes, every later fragment k ends at or before that     *)
(* size (k * size_per_chunk + length_k), no memcpy of recv_item writes     *)
(* behind the end of the buffer, and the length handed out does not exceed *)
(* the allocation.                                                         *)
(***************************************************************************)
C18_InsideBuffer ==
    LET f     == rcv[Consumer]
        alloc == f.total_chunk * f.size_per_chunk
    IN  /\ ~f.oob
        /\ ~f.uaf
        /\ (f.active /\ f.bufst = "live") => Len(f.buf) = alloc
        /\ (pc[Consumer] = "r_cs" /\ f.active /\ f.phase # "first") =>
              /\ f.bufst = "live"
              /\ f.i >= 1
              /\ f.i * f.size_per_chunk + Seg.len <= alloc
        /\ f.ret = 0 =>
              /\ f.len <= alloc
              /\ Len(f.out) = f.len

\* the third and last fragment, shorter than the first, is about to be
\* copied into the buffer
C18_Witness ==
    /\ pc[Consumer] = "r_cs"
    /\ rcv[Consumer].active
    /\ rcv[Consumer].phase = "last"
    /\ rcv[Consumer].i = 2
    /\ rcv[Consumer].bufst = "live"
    /\ Seg.len >= 1
    /\ Seg.len < rcv[Consumer].size_per_chunk

(***************************************************************************)
(* C17  Progress.  On a fresh channel with one send_item(m), len(m) > 0,   *)
(* and one recv_item, both scheduled fairly, both calls eventually return  *)
(* 0 and from then on the channel rests at (Readable, Writable) = (0,1)    *)
(* with no transaction in progress.                                        *)
(***************************************************************************)
C17_Progress ==
    <>[](/\ snd[Producer].ret = 0
         /\ rcv[Consumer].ret = 0
         /\ pc[Producer] = "idle"
         /\ pc[Consumer] = "idle"
         /\ R = 0
         /\ W = 1)

\* both calls have returned 0 for a message of three fragments and the
\* channel is at rest
C17_Witness ==
    /\ snd[Producer].ret = 0
    /\ snd[Producer].chunks = 3
    /\ rcv[Consumer].ret = 0
    /\ rcv[Consumer].total_chunk = 3
    /\ pc[Producer] = "idle"
    /\ pc[Consumer] = "idle"
    /\ R = 0
    /\ W = 1

(***************************************************************************)
(* SpecBounds: SpecRace in which the fragment_length of a fragment waiting *)
(* in the region may be overwritten once with a value at or around the two *)
(* candidate upper bounds, MAX_BYTES - header and MAX_BYTES.               *)
(***************************************************************************)
EdgeLens == {0, PayloadCap, PayloadCap + 1, MAX_BYTES, MAX_BYTES + 1}

CorruptEdge == \E v \in EdgeLens : Inject(v)

NextBounds == NextRace \/ CorruptEdge

SpecBounds == InitRace /\ [][NextBounds]_vars

(***************************************************************************)
(* C16  Length bounds on the read side.  A read_shared_memory that has     *)
(* returned 0 found a fragment_length with 0 < fragment_length <=          *)
(* MAX_BYTES - header size, and every byte it copied lies inside the       *)
(* region.                                                                 *)
(***************************************************************************)
C16_ReadLengthBounds ==
    \A p \in Readers :
        rd[p].rt = 0 =>
            /\ rd[p].len > 0
            /\ rd[p].len <= MAX_BYTES - HeaderSize
            /\ \A k \in 1..Len(rd[p].data) : rd[p].data[k] # Garbage

(***************************************************************************)
(* C19  Region cleared on hand-back.  Every step that releases the writer  *)
(* semaphore leaves the whole region zero, so whenever (Readable,          *)
(* Writable) = (0,1) and no transaction is in progress the header and the  *)
(* payload are all zero; and the payload bytes behind the fragment_length  *)
(* of the fragment in the region are zero, never bytes of an earlier,      *)
(* longer fragment.                                                        *)
(***************************************************************************)
C19_ClearedOnHandBack ==
    /\ [][W' > W => Seg' = ZeroSeg(MAX_BYTES)]_vars
    /\ []((R = 0 /\ W = 1 /\ InCS = {}) => Seg = ZeroSeg(MAX_BYTES))
    /\ [](\A k \in 1..PayloadCap : k > Seg.len => Seg.payload[k] = 0)

\* a fragment of one byte waits in the region after a fragment of two bytes
\* was read
C19_Witness ==
    /\ R = 1
    /\ Seg.len = 1
    /\ \E p \in Readers : rd[p].rt = 0 /\ rd[p].len = 2

====
